---- MODULE Spec2Model ----
(***************************************************************************)
(* Model of the Buddly-AI relay (Express server in front of an Ollama      *)
(* backend) and of its client-side request helper.                         *)
(*                                                                         *)
(* A JavaScript string is a sequence of one-character strings.  A          *)
(* JavaScript value is a record [t, s, m]: t is its type tag, s its text   *)
(* (the characters of a string, the digits of a number, the elements of an *)
(* array of one-character strings) and m its members (objects only: a      *)
(* function from key strings to values).                                   *)
(***************************************************************************)
EXTENDS Integers, Sequences, FiniteSets, TLC

LB == "{"
RB == "}"
QT == "\""
CL == ":"
CM == ","
SP == " "

Digits == {"0", "1"}

NoMembers == <<>>

Undefined == [t |-> "undef", s |-> <<>>, m |-> NoMembers]
Null      == [t |-> "null",  s |-> <<>>, m |-> NoMembers]
JTrue     == [t |-> "true",  s |-> <<>>, m |-> NoMembers]
JFalse    == [t |-> "false", s |-> <<>>, m |-> NoMembers]
JStr(s)   == [t |-> "str",   s |-> s,    m |-> NoMembers]
JNum(d)   == [t |-> "num",   s |-> d,    m |-> NoMembers]
JArr(e)   == [t |-> "arr",   s |-> e,    m |-> NoMembers]
JObj(m)   == [t |-> "obj",   s |-> <<>>, m |-> m]

EmptyStr == JStr(<<>>)

\* ToBoolean: what `!v` and `v || w` test.
Truthy(v) ==
    CASE v.t = "str" -> Len(v.s) > 0
      [] v.t = "num" -> v.s # <<"0">>
      [] v.t \in {"true", "obj", "arr"} -> TRUE
      [] OTHER -> FALSE

\* typeof v === 'string'
IsString(v) == v.t = "str"

\* Property read o.k on a value that is neither null nor undefined.
Get(o, k) == IF o.t = "obj" /\ k \in DOMAIN o.m THEN o.m[k] ELSE Undefined

\* Property write o[k] = v on a member map (a repeated key keeps the last value).
Put(m, k, v) == [x \in (DOMAIN m) \cup {k} |-> IF x = k THEN v ELSE m[x]]

Min(a, b) == IF a < b THEN a ELSE b
Max(a, b) == IF a > b THEN a ELSE b

\* String.prototype.indexOf(c) / Array.prototype.indexOf(c): 0-based, -1 if absent.
IndexOf(s, c) ==
    IF \E i \in 1..Len(s) : s[i] = c
    THEN (CHOOSE i \in 1..Len(s) : s[i] = c /\ \A j \in 1..(i - 1) : s[j] # c) - 1
    ELSE -1

\* Faulty variant of LastIndexOf: the first occurrence instead of the last.
LastIndexOfAsFirst(s, c) == IndexOf(s, c)

\* String.prototype.lastIndexOf(c) / Array.prototype.lastIndexOf(c).
LastIndexOf(s, c) ==
    IF \E i \in 1..Len(s) : s[i] = c
    THEN (CHOOSE i \in 1..Len(s) : s[i] = c /\ \A j \in (i + 1)..Len(s) : s[j] # c) - 1
    ELSE -1

\* String.prototype.substring(from, to) with 0-based, end-exclusive indices.
Substring(s, from, to) ==
    LET a == Max(0, Min(from, Len(s)))
        b == Max(0, Min(to, Len(s)))
    IN  SubSeq(s, Min(a, b) + 1, Max(a, b))

\* String.prototype.trim(): strips the whitespace at both ends.
RECURSIVE TrimStart(_)
TrimStart(s) == IF Len(s) > 0 /\ s[1] = SP THEN TrimStart(Tail(s)) ELSE s

RECURSIVE TrimEnd(_)
TrimEnd(s) ==
    IF Len(s) > 0 /\ s[Len(s)] = SP THEN TrimEnd(SubSeq(s, 1, Len(s) - 1)) ELSE s

Trim(s) == TrimEnd(TrimStart(s))

(***************************************************************************)
(* JSON.parse, as a recursive-descent parser over the characters of the    *)
(* model's alphabet.  A result is [ok, v, n]: n is the 1-based position    *)
(* after the value read.                                                   *)
(***************************************************************************)
ParseFail == [ok |-> FALSE, v |-> Undefined, n |-> 0]
ParseOk(v, n) == [ok |-> TRUE, v |-> v, n |-> n]

RECURSIVE SkipWs(_, _)
SkipWs(s, i) == IF i <= Len(s) /\ s[i] = SP THEN SkipWs(s, i + 1) ELSE i

\* s[i] is the opening quote; the string ends at the next quote.
ParseString(s, i) ==
    IF \E j \in (i + 1)..Len(s) : s[j] = QT
    THEN LET j == CHOOSE j \in (i + 1)..Len(s) :
                      s[j] = QT /\ \A k \in (i + 1)..(j - 1) : s[k] # QT
         IN  ParseOk(JStr(SubSeq(s, i + 1, j - 1)), j + 1)
    ELSE ParseFail

RECURSIVE DigitsEnd(_, _)
DigitsEnd(s, i) == IF i <= Len(s) /\ s[i] \in Digits THEN DigitsEnd(s, i + 1) ELSE i

\* s[i] is a digit; a number starting with 0 is the number 0 alone.
ParseNumber(s, i) ==
    IF s[i] = "0"
    THEN ParseOk(JNum(<<"0">>), i + 1)
    ELSE ParseOk(JNum(SubSeq(s, i, DigitsEnd(s, i) - 1)), DigitsEnd(s, i))

RECURSIVE ParseValue(_, _)
RECURSIVE ParseMembers(_, _, _)

\* s[i] is the opening brace.
ParseObject(s, i) ==
    LET j == SkipWs(s, i + 1)
    IN  IF j <= Len(s) /\ s[j] = RB
        THEN ParseOk(JObj(NoMembers), j + 1)
        ELSE ParseMembers(s, j, NoMembers)

ParseMembers(s, i, m) ==
    LET j == SkipWs(s, i)
    IN  IF j > Len(s) \/ s[j] # QT THEN ParseFail
        ELSE LET key == ParseString(s, j)
             IN  IF ~key.ok THEN ParseFail
                 ELSE LET c == SkipWs(s, key.n)
                      IN  IF c > Len(s) \/ s[c] # CL THEN ParseFail
                          ELSE LET val == ParseValue(s, c + 1)
                               IN  IF ~val.ok THEN ParseFail
                                   ELSE LET d  == SkipWs(s, val.n)
                                            m2 == Put(m, key.v.s, val.v)
                                        IN  IF d > Len(s) THEN ParseFail
                                            ELSE IF s[d] = CM THEN ParseMembers(s, d + 1, m2)
                                            ELSE IF s[d] = RB THEN ParseOk(JObj(m2), d + 1)
                                            ELSE ParseFail

ParseValue(s, i) ==
    LET j == SkipWs(s, i)
    IN  IF j > Len(s) THEN ParseFail
        ELSE IF s[j] = LB THEN ParseObject(s, j)
        ELSE IF s[j] = QT THEN ParseString(s, j)
        ELSE IF s[j] \in Digits THEN ParseNumber(s, j)
        ELSE ParseFail

\* JSON.parse(s): [threw, value]; it throws unless s is exactly one value.
JSONParse(s) ==
    LET r == ParseValue(s, 1)
    IN  IF r.ok /\ SkipWs(s, r.n) = Len(s) + 1
        THEN [threw |-> FALSE, value |-> r.v]
        ELSE [threw |-> TRUE, value |-> Undefined]


(***************************************************************************)
(* Text the code writes itself.                                            *)
(***************************************************************************)
RECURSIVE EscapeQuotes(_)
EscapeQuotes(s) ==
    IF s = <<>> THEN <<>>
    ELSE (IF Head(s) = QT THEN <<"\\", QT>> ELSE <<Head(s)>>) \o EscapeQuotes(Tail(s))

RECURSIVE JoinChars(_)
JoinChars(e) ==
    IF e = <<>> THEN <<>>
    ELSE IF Len(e) = 1 THEN <<e[1]>>
    ELSE <<e[1], CM>> \o JoinChars(Tail(e))

RECURSIVE QuoteAll(_)
QuoteAll(e) ==
    IF e = <<>> THEN <<>>
    ELSE <<QT>> \o EscapeQuotes(<<e[1]>>) \o <<QT>>
         \o (IF Len(e) = 1 THEN <<>> ELSE <<CM>> \o QuoteAll(Tail(e)))

\* JSON.stringify(v).  The members of an object are written in one fixed order.
RECURSIVE Stringify(_)
RECURSIVE StringifyMembers(_, _)
StringifyMembers(m, keys) ==
    IF keys = {} THEN <<>>
    ELSE LET k == CHOOSE x \in keys : \A y \in keys : Len(x) <= Len(y)
             rest == keys \ {k}
         IN  (IF m[k].t = "undef" THEN <<>>
              ELSE <<QT>> \o EscapeQuotes(k) \o <<QT, CL>> \o Stringify(m[k])
                   \o (IF \E y \in rest : m[y].t # "undef" THEN <<CM>> ELSE <<>>))
             \o StringifyMembers(m, rest)

Stringify(v) ==
    CASE v.t = "str"   -> <<QT>> \o EscapeQuotes(v.s) \o <<QT>>
      [] v.t = "num"   -> v.s
      [] v.t = "true"  -> <<"true">>
      [] v.t = "false" -> <<"false">>
      [] v.t = "null"  -> <<"null">>
      [] v.t = "arr"   -> <<"[">> \o QuoteAll(v.s) \o <<"]">>
      [] v.t = "obj"   -> <<LB>> \o StringifyMembers(v.m, DOMAIN v.m) \o <<RB>>
      [] OTHER         -> <<"undefined">>

\* String(v), as a template literal `${v}` converts it.
ToText(v) ==
    CASE v.t = "str" -> v.s
      [] v.t = "num" -> v.s
      [] v.t = "arr" -> JoinChars(v.s)
      [] v.t = "obj" -> <<"[object Object]">>
      [] OTHER       -> <<v.t>>

(***************************************************************************)
(* extractAndParseJson(text).  threw: a TypeError left the function;       *)
(* value: what it returned (null on failure); attempted: JSON.parse was    *)
(* called.                                                                 *)
(***************************************************************************)
ExtractResult(threw, value, attempted) ==
    [threw |-> threw, value |-> value, attempted |-> attempted]

\* Faulty variant of extractAndParseJson: the test endIndex < startIndex is
\* left out.
extractAndParseJsonNoOrderTest(text) ==
    IF text.t \notin {"str", "arr"}
    THEN ExtractResult(TRUE, Undefined, FALSE)
    ELSE LET startIndex == IndexOf(text.s, LB)
             endIndex   == LastIndexOf(text.s, RB)
         IN  IF startIndex = -1 \/ endIndex = -1
             THEN IF text.t = "arr"
                  THEN ExtractResult(TRUE, Undefined, FALSE)
                  ELSE ExtractResult(FALSE, Null, FALSE)
             ELSE IF text.t = "arr"
                  THEN ExtractResult(TRUE, Undefined, FALSE)
                  ELSE LET jsonString == Substring(text.s, startIndex, endIndex + 1)
                           p == JSONParse(jsonString)
                       IN  IF p.threw
                           THEN ExtractResult(FALSE, Null, TRUE)
                           ELSE ExtractResult(FALSE, p.value, TRUE)

\* A string has indexOf, lastIndexOf and substring; an array has the first two
\* only, so text.substring throws on either path; other values have none.
extractAndParseJson(text) ==
    IF text.t \notin {"str", "arr"}
    THEN ExtractResult(TRUE, Undefined, FALSE)
    ELSE LET startIndex == IndexOf(text.s, LB)
             endIndex   == LastIndexOf(text.s, RB)
         IN  IF startIndex = -1 \/ endIndex = -1 \/ endIndex < startIndex
             THEN IF text.t = "arr"
                  THEN ExtractResult(TRUE, Undefined, FALSE)
                  ELSE ExtractResult(FALSE, Null, FALSE)
             ELSE IF text.t = "arr"
                  THEN ExtractResult(TRUE, Undefined, FALSE)
                  ELSE LET jsonString == Substring(text.s, startIndex, endIndex + 1)
                           p == JSONParse(jsonString)
                       IN  IF p.threw
                           THEN ExtractResult(FALSE, Null, TRUE)
                           ELSE ExtractResult(FALSE, p.value, TRUE)

\* The shape test of the parsed object: html, css and js are non-empty strings.
HtmlKey == <<"h", "t", "m", "l">>
CssKey  == <<"c", "s", "s">>
JsKey   == <<"j", "s">>

\* Faulty variant of ValidBundle: the types are tested, the emptiness is not.
ValidBundleTypesOnly(parsed) ==
    ~ (\/ ~IsString(Get(parsed, HtmlKey))
       \/ ~IsString(Get(parsed, CssKey))
       \/ ~IsString(Get(parsed, JsKey)))

ValidBundle(parsed) ==
    ~ (\/ ~IsString(Get(parsed, HtmlKey))
       \/ ~IsString(Get(parsed, CssKey))
       \/ ~IsString(Get(parsed, JsKey))
       \/ ~Truthy(Get(parsed, HtmlKey))
       \/ ~Truthy(Get(parsed, CssKey))
       \/ ~Truthy(Get(parsed, JsKey)))


(***************************************************************************)
(* Program constants and the bounds of the model.                          *)
(***************************************************************************)
RawLimit     == 1000   \* rawResponseText.substring(0, 1000)
SnippetLimit == 200    \* badJson.slice(0, 200)

MaxPromptLen == 2      \* longest prompt string drawn for /generate
MaxOver      == 1      \* longest backend text: RawLimit + MaxOver characters

StringsUpTo(A, n) == UNION {[1..k -> A] : k \in 0..n}
Pad(n) == [i \in 1..n |-> "x"]

(***************************************************************************)
(* Inbound request bodies.                                                 *)
(***************************************************************************)
PromptKey         == <<"prompt">>
CodeKey           == <<"code">>
OriginalPromptKey == <<"originalPrompt">>
BadJsonKey        == <<"badJson">>
ResponseKey       == <<"response">>

NonStringVals ==
    {Null, JTrue, JFalse, JNum(<<"0">>), JNum(<<"1">>), JObj(NoMembers),
     JArr(<<>>), JArr(<<LB, RB>>)}

PromptVals ==
    {Undefined} \cup {JStr(s) : s \in StringsUpTo({SP, "a"}, MaxPromptLen)}
        \cup NonStringVals

FieldVals ==
    {Undefined, EmptyStr, JStr(<<"a">>), JNum(<<"0">>), JNum(<<"1">>), JObj(NoMembers)}

CodeVals ==
    {Undefined, Null, EmptyStr, JStr(<<"h">>), JObj(NoMembers),
     JObj(Put(Put(Put(NoMembers, HtmlKey, JStr(<<"h">>)), CssKey, EmptyStr),
              JsKey, EmptyStr))}

BadJsonVals ==
    {Undefined, EmptyStr, JStr(<<LB, QT>>), JStr(Pad(SnippetLimit + MaxOver)),
     JNum(<<"1">>), JTrue, JObj(NoMembers), JArr(<<LB, RB>>)}

\* A body holds the fields that are not undefined.
Body1(k, v) == JObj(IF v.t = "undef" THEN NoMembers ELSE Put(NoMembers, k, v))
Body2(k1, v1, k2, v2) ==
    JObj(IF v2.t = "undef" THEN Body1(k1, v1).m ELSE Put(Body1(k1, v1).m, k2, v2))

(***************************************************************************)
(* Backend replies: the texts a model can write, and the envelopes.        *)
(***************************************************************************)
BundleFieldVals == {Undefined, JStr(<<"h">>), EmptyStr, JNum(<<"1">>)}

Bundle(h, c, j) == Body2(HtmlKey, h, CssKey, c).m

Objs ==
    {JObj(IF j.t = "undef" THEN Bundle(h, c, j) ELSE Put(Bundle(h, c, j), JsKey, j)) :
        h \in BundleFieldVals, c \in BundleFieldVals, j \in BundleFieldVals}
    \cup {JObj(Put(NoMembers, HtmlKey, JStr(<<RB, SP, LB>>))),
          JObj(Put(Put(Put(Put(NoMembers, HtmlKey, JStr(<<"h">>)), CssKey, JStr(<<LB>>)),
                       JsKey, JStr(<<"j", SP>>)), <<"m">>, JObj(Put(NoMembers, <<"l">>, JNum(<<"1", "0">>)))))}

Prose == {<<>>, <<"h", "i", SP>>, <<"#", "#", SP, CM>>}

\* Texts holding one well-formed object between brace-free prose, with the object.
WellFormed ==
    {[text |-> p \o Stringify(o) \o q, obj |-> o] : p \in Prose, q \in Prose, o \in Objs}
    \cup {[text |-> <<SP, LB, SP, QT, "j", "s", QT, SP, CL, SP, QT, "j", QT, SP, RB, SP>>,
           obj  |-> JObj(Put(NoMembers, JsKey, JStr(<<"j">>)))]}

\* Spans from a first { to a last } that JSON.parse rejects.
MalformedSpans ==
    {<<LB, RB, LB, RB>>,
     <<LB, RB, RB>>,
     <<LB, LB, RB>>,
     <<LB, SP, "h", "i", SP, RB>>,
     <<LB, QT, "j", "s", QT, CL, QT, "j", QT, CM, RB>>,
     <<LB, QT, "j", "s", QT, SP, QT, "j", QT, RB>>,
     <<LB, "j", "s", CL, QT, "j", QT, RB>>,
     <<LB, QT, "j", "s", QT, CL, QT, "j", RB>>,
     <<LB, QT, "j", "s", QT, CL, "0", "1", RB>>,
     <<LB, QT, "j", "s", QT, CL, "1", RB, SP, "1", RB>>}

Malformed == {p \o m \o q : p \in Prose, q \in Prose, m \in MalformedSpans}

\* Texts with no {, no }, or the last } before the first {.
NoStructure ==
    {<<"h", "i">>, <<SP>>, <<LB>>, <<"h", LB, QT>>, <<RB>>, <<RB, SP, LB>>,
     <<RB, RB, "h", LB, LB>>}

LongTexts ==
    UNION {{Pad(n), Pad(n) \o <<LB, RB, RB>>, Pad(n) \o <<LB, RB>>, <<RB>> \o Pad(n) \o <<LB>>} :
              n \in (RawLimit - 1)..(RawLimit + MaxOver)}

RawTexts == {w.text : w \in WellFormed} \cup Malformed \cup NoStructure \cup LongTexts

ResponseVals == NonStringVals \cup {EmptyStr} \cup {JStr(t) : t \in RawTexts}

DataVals ==
    {Null, JNum(<<"1">>), JObj(NoMembers)}
        \cup {JObj(Put(NoMembers, ResponseKey, r)) : r \in ResponseVals}

Reply(net, ok, bodyJson, data) ==
    [net |-> net, ok |-> ok, bodyJson |-> bodyJson, data |-> data]

NoReply == Reply("none", FALSE, FALSE, Undefined)

Replies ==
    {Reply("unreachable", FALSE, FALSE, Undefined),
     Reply("http", FALSE, FALSE, Undefined),
     Reply("http", FALSE, TRUE, JObj(Put(NoMembers, ResponseKey, JStr(<<"h", "i">>)))),
     Reply("http", TRUE, FALSE, Undefined)}
        \cup {Reply("http", TRUE, TRUE, d) : d \in DataVals}


(***************************************************************************)
(* The relay: one inbound request from arrival to its response.            *)
(***************************************************************************)
VARIABLES
    pc,               \* position of the request's handler
    endpoint,         \* "generate", "followup", "retry" ("" before arrival)
    reqBody,          \* req.body
    validation,       \* outcome of the handler's field check
    outbound,         \* prompts of the calls made to the backend, in order
    reply,            \* the backend's answer to the call in flight
    rawResponseText,  \* local of processGenerativeRequest
    parsed,           \* local of processGenerativeRequest
    parseAttempted,   \* JSON.parse was called by extractAndParseJson
    responses,        \* responses sent to the inbound request, in order
    cpc,              \* position of the client helper
    cEndpoint,        \* endpoint argument of sendRequest
    cBody,            \* body argument of sendRequest
    cResponse,        \* what fetch gave the helper
    cOutcome          \* how sendRequest settled

relayVars ==
    <<pc, endpoint, reqBody, validation, outbound, reply, rawResponseText, parsed,
      parseAttempted, responses>>
clientVars == <<cpc, cEndpoint, cBody, cResponse, cOutcome>>
vars == <<pc, endpoint, reqBody, validation, outbound, reply, rawResponseText, parsed,
          parseAttempted, responses, cpc, cEndpoint, cBody, cResponse, cOutcome>>

\* A response: its status, whether its body is JSON, and the body.
Response(status, json, body) == [status |-> status, json |-> json, body |-> body]

ErrorBody(message) == JObj(Put(NoMembers, <<"error">>, JStr(<<message>>)))

\* Faulty variant of GenerationError: the raw text is not cut.
GenerationErrorUncut(raw) ==
    JObj(Put(Put(Put(NoMembers,
        <<"error">>, JStr(<<"Failed to generate a valid and complete application.">>)),
        <<"errorType">>, JStr(<<"GENERATION_ERROR">>)),
        <<"rawResponse">>, JStr(raw)))

GenerationError(raw) ==
    JObj(Put(Put(Put(NoMembers,
        <<"error">>, JStr(<<"Failed to generate a valid and complete application.">>)),
        <<"errorType">>, JStr(<<"GENERATION_ERROR">>)),
        <<"rawResponse">>, JStr(Substring(raw, 0, RawLimit))))

\* res.status(code).json(body)
Send(status, body) ==
    /\ responses' = Append(responses, Response(status, TRUE, body))
    /\ pc' = "sent"

\* An exception leaves the async handler: its promise rejects.
Reject ==
    /\ pc' = "rejected"
    /\ UNCHANGED responses

\* processGenerativeRequest(prompt, res) up to its await of fetch.
CallBackend(prompt) ==
    /\ rawResponseText' = EmptyStr
    /\ outbound' = Append(outbound, prompt)
    /\ pc' = "awaitFetch"
    /\ UNCHANGED responses

FollowupPrompt(prompt, code) ==
    <<"The user wants to modify the existing application. Current Code: ">>
        \o Stringify(code)
        \o <<". User's Change Request: \"">> \o ToText(prompt)
        \o <<"\". Generate the complete, updated code.">>

\* badJson.slice(0, 200) of a string or an array
Slice(v, from, to) == [v EXCEPT !.s = Substring(v.s, from, to)]

RetryPrompt(originalPrompt, badJson) ==
    <<"Your previous response was invalid JSON. Invalid response snippet: \"">>
        \o ToText(Slice(badJson, 0, SnippetLimit))
        \o <<"...\". The original request was: \"">> \o ToText(originalPrompt)
        \o <<"\". You MUST try again and provide ONLY a valid JSON object.">>

\* app.post('/generate')
PostGenerate(body) ==
    /\ pc = "idle"
    /\ endpoint' = "generate"
    /\ reqBody' = body
    /\ LET userPrompt == IF Truthy(Get(body, PromptKey)) THEN Get(body, PromptKey)
                         ELSE EmptyStr
       IN  IF ~IsString(userPrompt)
           THEN /\ validation' = "threw"
                /\ Reject
                /\ UNCHANGED <<outbound, rawResponseText>>
           ELSE IF Trim(userPrompt.s) = <<>>
           THEN /\ validation' = "failed"
                /\ Send(400, ErrorBody("prompt is required"))
                /\ UNCHANGED <<outbound, rawResponseText>>
           ELSE /\ validation' = "passed"
                /\ CallBackend(userPrompt.s)
    /\ UNCHANGED <<reply, parsed, parseAttempted, clientVars>>

\* app.post('/followup')
PostFollowup(body) ==
    /\ pc = "idle"
    /\ endpoint' = "followup"
    /\ reqBody' = body
    /\ LET prompt == Get(body, PromptKey)
           code   == Get(body, CodeKey)
       IN  IF ~Truthy(prompt) \/ ~Truthy(code)
           THEN /\ validation' = "failed"
                /\ Send(400, ErrorBody("A prompt and code are required."))
                /\ UNCHANGED <<outbound, rawResponseText>>
           ELSE /\ validation' = "passed"
                /\ CallBackend(FollowupPrompt(prompt, code))
    /\ UNCHANGED <<reply, parsed, parseAttempted, clientVars>>

\* app.post('/retry')
PostRetry(body) ==
    /\ pc = "idle"
    /\ endpoint' = "retry"
    /\ reqBody' = body
    /\ LET originalPrompt == Get(body, OriginalPromptKey)
           badJson        == Get(body, BadJsonKey)
       IN  IF ~Truthy(originalPrompt) \/ ~Truthy(badJson)
           THEN /\ validation' = "failed"
                /\ Send(400, ErrorBody("Original prompt and bad JSON are required."))
                /\ UNCHANGED <<outbound, rawResponseText>>
           ELSE IF badJson.t \notin {"str", "arr"}
           THEN /\ validation' = "passed"
                /\ Reject
                /\ UNCHANGED <<outbound, rawResponseText>>
           ELSE /\ validation' = "passed"
                /\ CallBackend(RetryPrompt(originalPrompt, badJson))
    /\ UNCHANGED <<reply, parsed, parseAttempted, clientVars>>

\* The backend answers the call in flight, or the call fails.
OllamaResponds(r) ==
    /\ pc = "awaitFetch"
    /\ reply' = r
    /\ pc' = "try"
    /\ UNCHANGED <<endpoint, reqBody, validation, outbound, rawResponseText, parsed,
                   parseAttempted, responses, clientVars>>

\* The body of the try block after fetch settles.
Throw(raw, p, attempted) ==
    /\ rawResponseText' = raw
    /\ parsed' = p
    /\ parseAttempted' = attempted
    /\ pc' = "catch"
    /\ UNCHANGED responses

TryBlock ==
    /\ pc = "try"
    /\ IF reply.net # "http" \/ ~reply.ok \/ ~reply.bodyJson
       THEN Throw(rawResponseText, parsed, parseAttempted)
       ELSE IF reply.data.t \in {"null", "undef"} \/ ~Truthy(Get(reply.data, ResponseKey))
       THEN Throw(rawResponseText, parsed, parseAttempted)
       ELSE LET text == Get(reply.data, ResponseKey)
                ex   == extractAndParseJson(text)
            IN  IF ex.threw
                THEN Throw(text, parsed, ex.attempted)
                ELSE IF ~Truthy(ex.value)
                THEN Throw(text, ex.value, ex.attempted)
                ELSE IF ~ValidBundle(ex.value)
                THEN Throw(text, ex.value, ex.attempted)
                ELSE /\ rawResponseText' = text
                     /\ parsed' = ex.value
                     /\ parseAttempted' = ex.attempted
                     /\ Send(200, ex.value)
    /\ UNCHANGED <<endpoint, reqBody, validation, outbound, reply, clientVars>>

\* Faulty variant of CatchBlock: the payload is sent with status 500.
CatchBlockStatus500 ==
    /\ pc = "catch"
    /\ IF IsString(rawResponseText)
       THEN Send(500, GenerationError(rawResponseText.s))
       ELSE Reject
    /\ UNCHANGED <<endpoint, reqBody, validation, outbound, reply, rawResponseText,
                   parsed, parseAttempted, clientVars>>

\* The catch block: rawResponseText.substring exists on strings only.
CatchBlock ==
    /\ pc = "catch"
    /\ IF IsString(rawResponseText)
       THEN Send(200, GenerationError(rawResponseText.s))
       ELSE Reject
    /\ UNCHANGED <<endpoint, reqBody, validation, outbound, reply, rawResponseText,
                   parsed, parseAttempted, clientVars>>

\* What the framework does with a handler whose promise rejected: Express 4
\* leaves the request unanswered, Express 5 answers 500 with a non-JSON page.
HandlerRejected ==
    /\ pc = "rejected"
    /\ \/ /\ pc' = "unanswered"
          /\ UNCHANGED responses
       \/ /\ responses' = Append(responses, Response(500, FALSE, Undefined))
          /\ pc' = "sent"
    /\ UNCHANGED <<endpoint, reqBody, validation, outbound, reply, rawResponseText,
                   parsed, parseAttempted, clientVars>>


(***************************************************************************)
(* The client helper: sendRequest and its three callers.                   *)
(***************************************************************************)
Pending == [kind |-> "pending", value |-> Undefined, message |-> <<>>]
Returned(v) == [kind |-> "returned", value |-> v, message |-> <<>>]
Raised(msg) == [kind |-> "raised", value |-> Undefined, message |-> msg]

NoResponse == Response(0, FALSE, Undefined)

\* response.ok
Ok(response) == response.status >= 200 /\ response.status <= 299

\* sendRequest(endpoint, body) up to its await of fetch.
StartRequest(ep, body) ==
    /\ cpc = "idle"
    /\ cEndpoint' = ep
    /\ cBody' = Stringify(body)
    /\ cpc' = "awaitFetch"
    /\ UNCHANGED <<cResponse, cOutcome, relayVars>>

generateCode(prompt) == StartRequest("generate", Body1(PromptKey, prompt))

followUp(prompt, code) == StartRequest("followup", Body2(PromptKey, prompt, CodeKey, code))

retryWithJson(originalPrompt, badJson) ==
    StartRequest("retry", Body2(OriginalPromptKey, originalPrompt, BadJsonKey, badJson))

\* fetch settles: a response arrives, or the transport fails (status 0).
FetchSettles(response) ==
    /\ cpc = "awaitFetch"
    /\ cResponse' = response
    /\ cpc' = "gotResponse"
    /\ UNCHANGED <<cEndpoint, cBody, cOutcome, relayVars>>

\* Faulty variant of SendRequestResume: no fallback message.
SendRequestResumeNoFallback ==
    /\ cpc = "gotResponse"
    /\ cOutcome' =
         IF cResponse.status = 0 THEN Raised(<<"fetch failed">>)
         ELSE IF ~Ok(cResponse)
         THEN IF ~cResponse.json THEN Raised(<<"SyntaxError">>)
              ELSE IF cResponse.body.t \in {"null", "undef"} THEN Raised(<<"TypeError">>)
              ELSE Raised(ToText(Get(cResponse.body, <<"error">>)))
         ELSE IF ~cResponse.json THEN Raised(<<"SyntaxError">>)
         ELSE Returned(cResponse.body)
    /\ cpc' = "settled"
    /\ UNCHANGED <<cEndpoint, cBody, cResponse, relayVars>>

\* sendRequest after fetch settles.
SendRequestResume ==
    /\ cpc = "gotResponse"
    /\ cOutcome' =
         IF cResponse.status = 0 THEN Raised(<<"fetch failed">>)
         ELSE IF ~Ok(cResponse)
         THEN IF ~cResponse.json THEN Raised(<<"SyntaxError">>)
              ELSE IF cResponse.body.t \in {"null", "undef"} THEN Raised(<<"TypeError">>)
              ELSE IF Truthy(Get(cResponse.body, <<"error">>))
              THEN Raised(ToText(Get(cResponse.body, <<"error">>)))
              ELSE Raised(<<"API request failed">>)
         ELSE IF ~cResponse.json THEN Raised(<<"SyntaxError">>)
         ELSE Returned(cResponse.body)
    /\ cpc' = "settled"
    /\ UNCHANGED <<cEndpoint, cBody, cResponse, relayVars>>

ClientArgs == {EmptyStr, JStr(<<"a">>), JObj(NoMembers)}

ClientStatuses == {200, 201, 400, 404, 500}

ClientBodies ==
    {ErrorBody("prompt is required"),
     ErrorBody("A prompt and code are required."),
     JObj(Put(NoMembers, <<"error">>, EmptyStr)),
     JObj(Put(NoMembers, <<"error">>, Null)),
     JObj(NoMembers),
     Null,
     GenerationError(<<"h", "i">>),
     JObj(Put(Put(Put(NoMembers, HtmlKey, JStr(<<"h">>)), CssKey, JStr(<<"c">>)),
              JsKey, JStr(<<"j">>)))}

ClientResponses ==
    {NoResponse}
        \cup {Response(st, TRUE, b) : st \in ClientStatuses, b \in ClientBodies}
        \cup {Response(st, FALSE, Undefined) : st \in ClientStatuses}

(***************************************************************************)
(* Specifications.                                                         *)
(***************************************************************************)
Init ==
    /\ pc = "idle"
    /\ endpoint = ""
    /\ reqBody = Undefined
    /\ validation = "none"
    /\ outbound = <<>>
    /\ reply = NoReply
    /\ rawResponseText = EmptyStr
    /\ parsed = Undefined
    /\ parseAttempted = FALSE
    /\ responses = <<>>
    /\ cpc = "idle"
    /\ cEndpoint = ""
    /\ cBody = <<>>
    /\ cResponse = NoResponse
    /\ cOutcome = Pending

Next ==
    \/ \E p \in PromptVals : PostGenerate(Body1(PromptKey, p))
    \/ \E p \in FieldVals, c \in CodeVals : PostFollowup(Body2(PromptKey, p, CodeKey, c))
    \/ \E o \in FieldVals, b \in BadJsonVals :
           PostRetry(Body2(OriginalPromptKey, o, BadJsonKey, b))
    \/ \E r \in Replies : OllamaResponds(r)
    \/ TryBlock
    \/ CatchBlock
    \/ HandlerRejected

Spec == Init /\ [][Next]_vars

ClientNext ==
    \/ \E p \in ClientArgs : generateCode(p)
    \/ \E p \in ClientArgs, c \in ClientArgs : followUp(p, c)
    \/ \E o \in ClientArgs, b \in ClientArgs : retryWithJson(o, b)
    \/ \E r \in ClientResponses : FetchSettles(r)
    \/ SendRequestResume

ClientSpec == Init /\ [][ClientNext]_vars


(***************************************************************************)
(* Properties.                                                             *)
(***************************************************************************)
BundleKeys == {HtmlKey, CssKey, JsKey}

\* The response is the generation-error payload at HTTP 200.
IsGenerationError(r) ==
    /\ r.status = 200
    /\ r.json
    /\ r.body.t = "obj"
    /\ DOMAIN r.body.m = {<<"error">>, <<"errorType">>, <<"rawResponse">>}
    /\ r.body.m[<<"errorType">>] = JStr(<<"GENERATION_ERROR">>)
    /\ r.body.m[<<"error">>].t = "str"
    /\ r.body.m[<<"rawResponse">>].t = "str"

\* The handler of the request has run to its end.
Finished == pc \in {"sent", "unanswered"}

\* The object has html, css and js, each a non-empty string.
CompleteBundle(o) ==
    \A k \in BundleKeys : k \in DOMAIN o.m /\ o.m[k].t = "str" /\ Len(o.m[k].s) > 0

\* C1: the parsed object is sent as the success payload only if html, css and
\* js are all present as non-empty strings; if one is missing, not a string or
\* empty, it is never sent and the caller gets the generation-error payload.
C1_OnlyCompleteBundlesReturned ==
    parsed.t = "obj" =>
        /\ \A i \in 1..Len(responses) :
               (responses[i].status = 200 /\ responses[i].body = parsed)
                   => CompleteBundle(parsed)
        /\ (~CompleteBundle(parsed) /\ pc \notin {"try", "catch"}) =>
               /\ Len(responses) = 1
               /\ IsGenerationError(responses[1])
               /\ responses[1].body # parsed
        /\ (CompleteBundle(parsed) /\ pc \notin {"try", "catch"}) =>
               responses = <<Response(200, TRUE, parsed)>>

\* The spec's example: html and css are given and js is the empty string.
C1_Witness ==
    /\ pc = "sent"
    /\ parsed.t = "obj"
    /\ DOMAIN parsed.m = BundleKeys
    /\ parsed.m[JsKey] = EmptyStr
    /\ parsed.m[HtmlKey] = JStr(<<"h">>)
    /\ parsed.m[CssKey] = JStr(<<"h">>)
    /\ IsGenerationError(responses[1])

\* The backend call failed: unreachable, a non-success status, or a reply
\* that holds no response field.
BackendFailed ==
    \/ reply.net = "unreachable"
    \/ reply.net = "http" /\ ~reply.ok
    \/ reply.net = "http" /\ reply.ok
         /\ (~reply.bodyJson \/ reply.data.t # "obj" \/ ResponseKey \notin DOMAIN reply.data.m)

\* C2: when the backend call fails, no 5xx is ever sent and the request is
\* answered with HTTP 200 and the GENERATION_ERROR payload.
C2_BackendFailureIs200 ==
    BackendFailed =>
        /\ \A i \in 1..Len(responses) : responses[i].status < 500
        /\ pc \in {"try", "catch", "sent"}
        /\ pc = "sent" => (Len(responses) = 1 /\ IsGenerationError(responses[1]))

C2_Witness ==
    /\ reply.net = "http"
    /\ ~reply.ok
    /\ pc = "sent"
    /\ IsGenerationError(responses[1])

\* The field is missing or holds nothing: absent, null, false, 0 or "".
Missing(v) == v.t \in {"undef", "null", "false"} \/ v = JNum(<<"0">>) \/ v = EmptyStr

Blank(v) == v.t = "str" /\ \A i \in 1..Len(v.s) : v.s[i] = SP

IsValidationError(r) ==
    /\ r.status = 400
    /\ r.json
    /\ r.body.t = "obj"
    /\ DOMAIN r.body.m = {<<"error">>}
    /\ r.body.m[<<"error">>].t = "str"

\* C3: POST /generate with a missing, empty or whitespace-only prompt is
\* answered 400 {error}; any other prompt is forwarded to the backend unchanged.
C3_GenerateValidation ==
    (endpoint = "generate" /\ pc # "idle") =>
        LET p == Get(reqBody, PromptKey)
        IN  IF Missing(p) \/ Blank(p)
            THEN /\ Len(responses) = 1
                 /\ IsValidationError(responses[1])
                 /\ outbound = <<>>
            ELSE /\ outbound = <<p.s>>
                 /\ \A i \in 1..Len(responses) : responses[i].status # 400

\* C4: /followup without prompt or code, and /retry without originalPrompt or
\* badJson, is answered 400; with both fields the request is not answered 400
\* and goes on to the generation procedure.
C4_TwoFieldValidation ==
    (endpoint \in {"followup", "retry"} /\ pc # "idle") =>
        LET a == IF endpoint = "followup" THEN Get(reqBody, PromptKey)
                 ELSE Get(reqBody, OriginalPromptKey)
            b == IF endpoint = "followup" THEN Get(reqBody, CodeKey)
                 ELSE Get(reqBody, BadJsonKey)
        IN  IF Missing(a) \/ Missing(b)
            THEN /\ Len(responses) = 1
                 /\ IsValidationError(responses[1])
            ELSE /\ \A i \in 1..Len(responses) : responses[i].status # 400
                 /\ Len(outbound) = 1

\* C5: for a text holding one well-formed object between brace-free prose,
\* extraction yields exactly that object.
C5_ExtractsTheObject ==
    \A w \in WellFormed :
        (pc \in {"sent", "catch"} /\ rawResponseText = JStr(w.text))
            => (parsed = w.obj /\ parseAttempted)

\* Prose on both sides, a nested object and a brace inside a string value.
C5_Witness ==
    /\ pc = "sent"
    /\ \E w \in WellFormed :
        /\ rawResponseText = JStr(w.text)
        /\ w.text[1] # LB
        /\ w.text[Len(w.text)] # RB
        /\ parsed = w.obj
        /\ <<"m">> \in DOMAIN parsed.m
        /\ parsed.m[<<"m">>].t = "obj"
        /\ parsed.m[CssKey] = JStr(<<LB>>)

\* No { of the text comes before a } of the text.
NoBraceSpan(s) ==
    \A i \in 1..Len(s) : s[i] = LB => \A j \in (i + 1)..Len(s) : s[j] # RB

\* The text was given to extractAndParseJson.
Extracted == pc \in {"sent", "catch"} /\ rawResponseText.t = "str" /\ Len(rawResponseText.s) > 0

\* C6: a text with no {, no }, or its last } before its first { yields null
\* with no parse attempted; a { .. } span that is not valid JSON yields null;
\* and every null ends in the generation-error payload.
C6_ExtractionFailure ==
    Extracted =>
        /\ NoBraceSpan(rawResponseText.s) => (parsed = Null /\ ~parseAttempted)
        /\ rawResponseText.s \in Malformed => (parsed = Null /\ parseAttempted)
        /\ (parsed = Null /\ pc = "sent") =>
               (Len(responses) = 1 /\ IsGenerationError(responses[1]))

\* The last } comes before the first {.
C6_Witness ==
    /\ pc = "sent"
    /\ rawResponseText = JStr(<<RB, SP, LB>>)
    /\ parsed = Null
    /\ ~parseAttempted
    /\ IsGenerationError(responses[1])

\* The text the backend returned to this request ("" when it returned none).
BackendOutput ==
    IF /\ reply.net = "http" /\ reply.ok /\ reply.bodyJson
       /\ reply.data.t = "obj"
       /\ ResponseKey \in DOMAIN reply.data.m
       /\ reply.data.m[ResponseKey].t = "str"
    THEN reply.data.m[ResponseKey].s
    ELSE <<>>

\* C7: rawResponse of a generation-error payload has at most 1000 characters
\* and is the first min(1000, length) characters of the backend's output.
C7_RawResponseIsPrefix ==
    \A i \in 1..Len(responses) :
        IsGenerationError(responses[i]) =>
            LET r == responses[i].body.m[<<"rawResponse">>].s
            IN  /\ Len(r) <= 1000
                /\ Len(r) = (IF Len(BackendOutput) < 1000 THEN Len(BackendOutput) ELSE 1000)
                /\ \A k \in 1..Len(r) : r[k] = BackendOutput[k]

\* An output longer than the limit was cut.
C7_Witness ==
    /\ pc = "sent"
    /\ Len(BackendOutput) > 1000
    /\ IsGenerationError(responses[1])
    /\ Len(responses[1].body.m[<<"rawResponse">>].s) = 1000

C9_OneOutboundCall ==
    /\ Len(outbound) <= 1
    /\ validation = "passed" => Len(outbound) = 1
    /\ (\E i \in 1..Len(responses) : responses[i].status = 400) => Len(outbound) = 0

\* C10: a request whose handler has run to its end got exactly one response.
C10_ExactlyOneResponse ==
    /\ Len(responses) <= 1
    /\ Finished => Len(responses) = 1

====
